---- MODULE Spec2Model ----
(***************************************************************************)
(* A model of the shuttle repository's deployer run pipeline and gateway   *)
(* start-up:                                                               *)
(*                                                                         *)
(*  - the deployer's run pipeline (src/deployer/src/deployment/run.rs):    *)
(*    the runner loop `task`, the per-deployment handler `Built::handle`,  *)
(*    the reaper `kill_old_deployments`, the supervised task `run` and the *)
(*    four cleanup functions, together with the tokio broadcast kill bus   *)
(*    they communicate through (Spec, FairSpec, FairTermSpec);             *)
(*  - the reaper called on its own with arbitrary snapshots (KodSpec);     *)
(*  - the gateway's ambulance loop and worker queue                        *)
(*    (src/gateway/src/main.rs, GwSpec);                                   *)
(*  - the gateway's `start`: the start-up refresh loop, the TLS set-up     *)
(*    with `init_certs`, and the final select! (TlsSpec, TlsFairSpec).     *)
(*                                                                         *)
(* The parts share no state: each specification runs one part and leaves   *)
(* the variables of the others untouched.                                  *)
(***************************************************************************)
EXTENDS Integers, Sequences, FiniteSets, TLC

\* ---------------------------------------------------------------- bounds

\* Number of Built records the builder hands to the runner.
NumDeps == 2
\* Number of distinct ServiceIds the Built records are drawn from.
NumServices == 2
\* Number of ids an administrative publisher puts on the kill bus.
MaxAdminKills == 2
\* Capacity of the kill bus (broadcast::channel(cap)); the tests use 1.
KillCap == 1
\* Number of projects the gateway holds.
NumProjects == 2
\* Number of CustomDomain rows the gateway holds.
NumDomains == 2
\* Largest number of persisted projects the gateway is started with.
MaxBootProjects == 5
\* Number of times the gateway is started on one state directory.
MaxStarts == 2
\* Number of DeploymentIds the reaper on its own is called with.
NumKodIds == 3
\* Capacity of the worker queue and the ambulance's threshold: the gateway's
\* WORKER_QUEUE_SIZE and SVC_DEGRADED_THRESHOLD (imported at main.rs:14 and
\* main.rs:7), scaled down.
WORKER_QUEUE_SIZE == 4
SVC_DEGRADED_THRESHOLD == 2

Dep == 1..NumDeps
Service == 1..NumServices
\* No DeploymentId: the id of no Built, and the publisher of a message that
\* no reaper sent.
GhostId == 0

\* ------------------------------------------------------- deployer: inputs

\* Built::service_name values: one that parses, one that does not.
ServiceNames == { <<"a", "-", "1">>, <<"-", "a", "1">> }
NameChars == {"a", "1", "-"}

\* ServiceName::from_str: lowercase alphanumerics and dashes, length 3..63,
\* no dash first or last.  TRUE stands for Ok(name), FALSE for Err(err).
ServiceNameFromStr(s) ==
    /\ Len(s) >= 3
    /\ Len(s) <= 63
    /\ \A i \in 1..Len(s) : s[i] \in NameChars
    /\ s[1] # "-"
    /\ s[Len(s)] # "-"

\* What lies at deployment_library_path(id) when the handler loads it:
\* nothing, a library whose construction panics, or a library that loads.
Artifacts == {"missing", "main-panic", "loadable"}

\* The two-level result a service handle resolves to.
OkOk == [join |-> "ok", inner |-> "ok", msg |-> ""]
OkErrBindPanic == [join |-> "ok", inner |-> "BindPanic", msg |-> "panic in bind"]
ErrPanic == [join |-> "panic", inner |-> "", msg |-> ""]
ErrCancelled == [join |-> "cancelled", inner |-> "", msg |-> ""]
NoResult == [join |-> "none", inner |-> "", msg |-> ""]

\* The ways a service task ends when left alone: it returns Ok, its bind
\* step panics, or the task itself panics.
Endings == {"ok", "bind-panic", "panic"}

VARIABLES
    runQueue,   \* RunReceiver: Built records sent and not yet received
    built,      \* built[d]: the Built record with id d
    artifact,   \* artifact[d]: what the handler found at d's library path
    pc,         \* pc[d]: where d's pipeline stands
    rpc,        \* the runner loop: "recv", or "factory" while get_factory is awaited
    bus,        \* every message sent on the kill bus so far, oldest first
    rx,         \* rx[d]: number of bus messages d's KillReceiver is past
    killOn,     \* killOn[d]: the kill branch of d's current select! is enabled
    svc,        \* svc[d]: the service task behind the handle: "none", "running",
                \* "cancelled", or how it ended
    aborted,    \* aborted[d]: handle.abort() was called
    lib,        \* lib[d]: the loaded library
    snap,       \* snap[d]: ids the reaper of d has still to publish
    seen,       \* seen[d]: what get_active_deployments returned to d's reaper
    active,     \* ids whose recorded state is Running, in order of recording
    result,     \* result[d]: `result` of run
    handleRet,  \* handleRet[d]: what Built::handle returned
    cleanups,   \* cleanups[d]: the cleanup functions invoked for d, in order
    cbArgs,     \* cbArgs[d]: the results the cleanup callback was invoked with
    turns,      \* turns[d]: loop turns of d's run task, one per foreign kill id
    adminKills, \* number of administrative publications so far
    procUp      \* the deployer process is alive

depVars == <<runQueue, built, artifact, pc, rpc, bus, rx, killOn, svc, aborted,
             lib, snap, active, result, handleRet, cleanups, cbArgs, turns,
             adminKills, procUp, seen>>

\* The gateway.
VARIABLES
    wq,         \* the worker queue: tasks sent and not yet taken by the worker
    ambPc,      \* the ambulance: "tick", "list", "send" or "await"
    ambTodo,    \* projects of this tick still to be checked, the current one first
    ambFree     \* free capacity of the queue at the ambulance's latest enqueue

gwVars == <<wq, ambPc, ambTodo, ambFree>>

\* The gateway's start: start-up refresh, TLS and the final select!.
VARIABLES
    useTls,     \* args.use_tls: "unset" before start is called
    sslPem,     \* what <fs>/ssl.pem holds: "absent", "invalid", "valid", "issued"
    acmeJson,   \* what <fs>/acme.json holds: "absent", "invalid", "valid"
    domains,    \* CustomDomain rows still to be installed, the next one first
    mainPc,     \* where start stands
    certPc,     \* where the spawned init_certs task stands
    certs,      \* the ChainAndPrivateKey init_certs holds
    served,     \* what the resolver serves as default certificate
    installed,  \* the custom domains the resolver serves
    exit,       \* how the gateway process ended: "none", "Ok", "panic"
    handles,    \* handles[t]: the top-level task t: "none", "running",
                \* "finished" or "panicked"
    nProj,      \* number of persisted projects
    bootTodo,   \* projects the start-up loop has still to send a refresh for
    bootQ,      \* the worker queue during start-up
    starts,     \* number of times the gateway was started
    ops,        \* what init_certs did in this run, in order
    acmeLog     \* every create_certificate request made so far

tlsVars == <<useTls, sslPem, acmeJson, domains, mainPc, certPc, certs, served,
             installed, exit, handles, nProj, bootTodo, bootQ, starts, ops,
             acmeLog>>

\* One call of kill_old_deployments on its own.
VARIABLES
    kodId,      \* deployment_id
    kodSnap,    \* what get_active_deployments returned
    kodLeft,    \* the ids the for loop has still to go through
    kodSent,    \* the ids sent on the kill bus, in order
    kodRet      \* "idle", "running", "Ok" or "OldCleanup"

kodVars == <<kodId, kodSnap, kodLeft, kodSent, kodRet>>

nonDepVars == <<gwVars, tlsVars, kodVars>>
nonGwVars == <<depVars, tlsVars, kodVars>>
nonTlsVars == <<depVars, gwVars, kodVars>>
nonKodVars == <<depVars, gwVars, tlsVars>>

vars == <<depVars, gwVars, tlsVars, kodVars>>

NoBuilt == [id |-> GhostId, service_name |-> <<>>, service_id |-> 0]

DepInit ==
    /\ runQueue = <<>>
    /\ built = [d \in Dep |-> NoBuilt]
    /\ artifact = [d \in Dep |-> "unread"]
    /\ pc = [d \in Dep |-> "new"]
    /\ rpc = "recv"
    /\ bus = <<>>
    /\ rx = [d \in Dep |-> 0]
    /\ killOn = [d \in Dep |-> FALSE]
    /\ svc = [d \in Dep |-> "none"]
    /\ aborted = [d \in Dep |-> FALSE]
    /\ lib = [d \in Dep |-> "none"]
    /\ snap = [d \in Dep |-> <<>>]
    /\ seen = [d \in Dep |-> <<>>]
    /\ active = <<>>
    /\ result = [d \in Dep |-> NoResult]
    /\ handleRet = [d \in Dep |-> "pending"]
    /\ cleanups = [d \in Dep |-> <<>>]
    /\ cbArgs = [d \in Dep |-> <<>>]
    /\ turns = [d \in Dep |-> 0]
    /\ adminKills = 0
    /\ procUp = TRUE

\* ------------------------------------------------- deployer: kill bus

\* A pipeline holds its KillReceiver from the runner's subscribe() until the
\* handler or the run task that owns it returns.
Subscribed(d) ==
    pc[d] \in {"factory", "handle", "loaded", "reaping", "run", "aborting", "closing"}

NumReceivers == Cardinality({d \in Dep : Subscribed(d)})

\* broadcast::Receiver::recv on d's receiver has something to return.
RecvReady(d) == rx[d] < Len(bus)

\* The receiver fell more than the capacity behind: recv returns Err(Lagged).
Lagged(d) == Len(bus) - rx[d] > KillCap

\* A deployment in the running state: its run task selects or awaits the
\* aborted handle, and the service task is not over.
Running(d) == pc[d] \in {"run", "aborting"} /\ svc[d] = "running"

\* A bus message: the id, its publisher (the reaper's deployment, GhostId
\* for an administrative request), and whether the id's deployment was in
\* the running state when it was sent.
Msg(id, by) ==
    [id |-> id, by |-> by, live |-> id \in Dep /\ pc[id] = "run" /\ svc[id] = "running"]

\* ------------------------------------------------- deployer: cleanups

Entry(kind, by, err) == [kind |-> kind, by |-> by, err |-> err]

completed_cleanup(by) == Entry("completed", by, "")
stopped_cleanup(by) == Entry("stopped", by, "")
crashed_cleanup(by, err) == Entry("crashed", by, err)
start_crashed_cleanup(by, err) == Entry("start_crashed", by, err)

\* A faulty variant: the `if err.is_cancelled()` arm is missing.
cleanup_without_cancelled(r) ==
    IF r.join = "ok"
    THEN IF r.inner = "ok"
         THEN completed_cleanup("callback")
         ELSE crashed_cleanup("callback", r.inner)
    ELSE start_crashed_cleanup("callback", "JoinError")

\* The cleanup closure of task.
cleanup(r) ==
    IF r.join = "ok"
    THEN IF r.inner = "ok"
         THEN completed_cleanup("callback")
         ELSE crashed_cleanup("callback", r.inner)
    ELSE IF r.join = "cancelled"
         THEN stopped_cleanup("callback")
         ELSE start_crashed_cleanup("callback", "JoinError")

\* ActiveDeploymentsGetter::get_active_deployments: the ids of the service
\* whose recorded state is Running.
GetActiveDeployments(sid) ==
    SelectSeq(active, LAMBDA x : built[x].service_id = sid)

\* A cleanup records a terminal state for d: d leaves the active set.
Deactivate(d) == SelectSeq(active, LAMBDA x : x # d)

\* A faulty variant: the end of d's pipeline takes every deployment out of
\* the active set.
FinishClearsActive(d, es) ==
    /\ cleanups' = [cleanups EXCEPT ![d] = @ \o es]
    /\ active' = <<>>
    /\ pc' = [pc EXCEPT ![d] = "done"]
    /\ rx' = [rx EXCEPT ![d] = 0]
    /\ killOn' = [killOn EXCEPT ![d] = FALSE]
    /\ turns' = [turns EXCEPT ![d] = 0]

\* d's pipeline ends invoking the cleanups es; its receiver is dropped.
Finish(d, es) ==
    /\ cleanups' = [cleanups EXCEPT ![d] = @ \o es]
    /\ active' = Deactivate(d)
    /\ pc' = [pc EXCEPT ![d] = "done"]
    /\ rx' = [rx EXCEPT ![d] = 0]
    /\ killOn' = [killOn EXCEPT ![d] = FALSE]
    /\ turns' = [turns EXCEPT ![d] = 0]

\* ------------------------------------------------- deployer: the builder

\* The ServiceIds in use, and the next fresh one.
UsedServices == {built[e].service_id : e \in {x \in Dep : pc[x] # "new"}}
FreshService == {s \in Service : \A u \in UsedServices : u < s}
NextService ==
    IF FreshService = {} THEN {}
    ELSE {CHOOSE s \in FreshService : \A t \in FreshService : s <= t}

\* The builder sends Built d on the run channel.  Deployment ids and service
\* ids are handed out in order: both are interchangeable up to their name.
Submit(d) ==
    /\ procUp
    /\ pc[d] = "new"
    /\ \A e \in Dep : e < d => pc[e] # "new"
    /\ \E name \in ServiceNames, sid \in UsedServices \cup NextService :
        /\ built' = [built EXCEPT ![d] =
                        [id |-> d, service_name |-> name, service_id |-> sid]]
        /\ runQueue' = Append(runQueue, d)
    /\ pc' = [pc EXCEPT ![d] = "queued"]
    /\ UNCHANGED <<artifact, rpc, bus, rx, killOn, svc, aborted, lib, snap, active, result,
                   handleRet, cleanups, cbArgs, adminKills, procUp, turns,
                   seen, nonDepVars>>

\* ------------------------------------------------- deployer: task

\* A faulty variant: an error in one item ends the loop.
ContinueEndsLoop == "ended"

\* `continue` in an error arm of the loop: on to the next recv.
Continue == "recv"

\* One turn of the runner loop up to its first await: recv, subscribe,
\* pick_unused_port, ServiceName::from_str, and the call of get_factory.
RunnerRecv ==
    /\ procUp
    /\ rpc = "recv"
    /\ runQueue # <<>>
    /\ LET d == Head(runQueue) IN
        /\ runQueue' = Tail(runQueue)
        /\ \E port \in {"None", "Some"} :
            IF port = "None"
            THEN /\ Finish(d, <<start_crashed_cleanup("loop", "PrepareLoad")>>)
                 /\ rpc' = Continue
            ELSE IF ~ServiceNameFromStr(built[d].service_name)
            THEN /\ Finish(d, <<start_crashed_cleanup("loop", "ServiceName")>>)
                 /\ rpc' = Continue
            ELSE /\ pc' = [pc EXCEPT ![d] = "factory"]
                 /\ rx' = [rx EXCEPT ![d] = Len(bus)]
                 /\ rpc' = "factory"
                 /\ UNCHANGED <<cleanups, active, killOn, turns>>
    /\ UNCHANGED <<built, artifact, bus, svc, aborted, lib, snap, result,
                   handleRet, cbArgs, adminKills, procUp,
                   seen, nonDepVars>>

\* get_factory returns: on Err a start-crashed cleanup and `continue`, on Ok
\* the reaper future and the cleanup closure are built and the handler task
\* is spawned.
RunnerFactory(d) ==
    /\ procUp
    /\ rpc = "factory"
    /\ pc[d] = "factory"
    /\ \E ok \in BOOLEAN :
        IF ok
        THEN /\ pc' = [pc EXCEPT ![d] = "handle"]
             /\ rpc' = "recv"
             /\ UNCHANGED <<cleanups, active, rx, killOn, turns>>
        ELSE /\ Finish(d, <<start_crashed_cleanup("loop", "Factory")>>)
             /\ rpc' = Continue
    /\ UNCHANGED <<runQueue, built, artifact, bus, svc, aborted, lib, snap, result,
                   handleRet, cbArgs, adminKills, procUp,
                   seen, nonDepVars>>

\* ------------------------------------------------- deployer: Built::handle

\* A faulty variant: the handler drops the error of Built::handle.
HandlerCleanupsSilent(ret) == <<>>

\* The spawned handler on the return value of Built::handle:
\* `if let Err(err) = .. { start_crashed_cleanup(&id, err) }`.
HandlerCleanups(ret) ==
    IF ret # "Ok" THEN <<start_crashed_cleanup("handler", ret)>> ELSE <<>>

\* Built::handle returned Err(err) to the spawned handler.
HandlerFails(d, err) ==
    /\ handleRet' = [handleRet EXCEPT ![d] = err]
    /\ Finish(d, HandlerCleanups(err))

\* A faulty variant: a panic in the library's construction goes unnoticed.
load_deployment_unchecked(art) ==
    CASE art = "missing" -> "Load"
      [] OTHER -> ""

\* Error of load_deployment for the library at so_path, "" for none.
load_deployment(art) ==
    CASE art = "missing" -> "Load"
      [] art = "main-panic" -> "Run(BuildPanic(main panic))"
      [] OTHER -> ""

\* deployment_library_path and load_deployment.  A successful load has
\* started the service task and holds the library open.
HandleLoad(d) ==
    /\ procUp
    /\ pc[d] = "handle"
    /\ \E pathOk \in BOOLEAN, art \in Artifacts :
        IF ~pathOk
        THEN /\ HandlerFails(d, "Path")
             /\ UNCHANGED <<artifact, svc, lib>>
        ELSE /\ artifact' = [artifact EXCEPT ![d] = art]
             /\ IF load_deployment(art) # ""
                THEN /\ HandlerFails(d, load_deployment(art))
                     /\ UNCHANGED <<svc, lib>>
                ELSE /\ svc' = [svc EXCEPT ![d] = "running"]
                     /\ lib' = [lib EXCEPT ![d] = "open"]
                     /\ pc' = [pc EXCEPT ![d] = "loaded"]
                     /\ UNCHANGED <<handleRet, cleanups, active, rx, killOn, turns>>
    /\ UNCHANGED <<runQueue, built, rpc, bus, aborted, snap, result,
                   cbArgs, adminKills, procUp,
                   seen, nonDepVars>>

\* ------------------------------------------------- deployer: kill_old_deployments

\* A faulty variant: the reaper publishes nothing.
ReapTargetsNone(snapshot, deployment_id) == <<>>

\* A faulty variant: the `filter` is missing.
ReapTargetsUnfiltered(snapshot, deployment_id) == snapshot

\* The ids the reaper of deployment_id publishes, in order.
ReapTargets(snapshot, deployment_id) ==
    SelectSeq(snapshot, LAMBDA old_id : old_id # deployment_id)

\* get_active_deployments returns.  On Err the reaper and handle return
\* Err(OldCleanup): the LoadedService is dropped, which detaches the handle
\* and releases the library.
ReapSnapshot(d) ==
    /\ procUp
    /\ pc[d] = "loaded"
    /\ \E ok \in BOOLEAN :
        IF ok
        THEN /\ seen' = [seen EXCEPT ![d] = GetActiveDeployments(built[d].service_id)]
             /\ snap' = [snap EXCEPT ![d] = ReapTargets(seen'[d], d)]
             /\ pc' = [pc EXCEPT ![d] = "reaping"]
             /\ UNCHANGED <<lib, handleRet, cleanups, active, rx, killOn, turns>>
        ELSE /\ lib' = [lib EXCEPT ![d] = "dropped"]
             /\ HandlerFails(d, "OldCleanup")
             /\ UNCHANGED <<snap, seen>>
    /\ UNCHANGED <<runQueue, built, artifact, rpc, bus, svc, aborted, result,
                   cbArgs, adminKills, procUp,
                   nonDepVars>>

\* One kill_send.send(old_id) of the reaper's loop.  send fails only when
\* the bus has no receiver.
ReapSend(d) ==
    /\ procUp
    /\ pc[d] = "reaping"
    /\ snap[d] # <<>>
    /\ IF NumReceivers = 0
       THEN /\ lib' = [lib EXCEPT ![d] = "dropped"]
            /\ HandlerFails(d, "OldCleanup")
            /\ snap' = [snap EXCEPT ![d] = <<>>]
            /\ UNCHANGED bus
       ELSE /\ bus' = Append(bus, Msg(Head(snap[d]), d))
            /\ snap' = [snap EXCEPT ![d] = Tail(@)]
            /\ UNCHANGED <<lib, handleRet, cleanups, active, pc, rx, killOn, turns>>
    /\ UNCHANGED <<runQueue, built, artifact, rpc, svc, aborted, result,
                   cbArgs, adminKills, procUp,
                   seen, nonDepVars>>

\* The reaper returned Ok: tokio::spawn(run(..)), and handle returns Ok.
\* Entering run records the state Running for d.
HandleSpawnRun(d) ==
    /\ procUp
    /\ pc[d] = "reaping"
    /\ snap[d] = <<>>
    /\ pc' = [pc EXCEPT ![d] = "run"]
    /\ killOn' = [killOn EXCEPT ![d] = TRUE]
    /\ handleRet' = [handleRet EXCEPT ![d] = "Ok"]
    /\ cleanups' = [cleanups EXCEPT ![d] = @ \o HandlerCleanups("Ok")]
    /\ active' = Append(active, d)
    /\ UNCHANGED <<runQueue, built, artifact, rpc, bus, rx, svc, aborted, lib, snap,
                   result, cbArgs, adminKills, procUp, turns,
                   seen, nonDepVars>>

\* ------------------------------------------------- deployer: run

\* A faulty variant: the service's error is swallowed.
JoinResultLossy(d) ==
    IF svc[d] = "cancelled" THEN ErrCancelled ELSE OkOk

\* A faulty variant: an aborted handle always yields a cancelled join error.
JoinResultAbortWins(d) ==
    IF aborted[d] THEN ErrCancelled
    ELSE CASE svc[d] = "ok" -> OkOk
           [] svc[d] = "bind-panic" -> OkErrBindPanic
           [] OTHER -> ErrPanic

\* What awaiting the handle yields once the service task is over.
JoinResult(d) ==
    CASE svc[d] = "ok" -> OkOk
      [] svc[d] = "bind-panic" -> OkErrBindPanic
      [] svc[d] = "cancelled" -> ErrCancelled
      [] OTHER -> ErrPanic

\* The service task is over: its handle is ready.
Resolved(d) == svc[d] \in Endings \cup {"cancelled"}

\* `if kill_id == id` of run.
\* A faulty variant: every kill id stops the deployment.
KillMatchesAny(kill_id, id) == TRUE

KillMatches(kill_id, id) == kill_id = id

\* The kill branch of select!: kill_recv.recv() completes.  Err(Lagged) does
\* not match the pattern Ok(kill_id), which disables the branch for the rest
\* of this select!; a kill_id other than id starts the next loop turn; the
\* own id aborts the handle and goes on to await it.
RunRecv(d) ==
    /\ procUp
    /\ pc[d] = "run"
    /\ killOn[d]
    /\ RecvReady(d)
    /\ IF Lagged(d)
       THEN /\ rx' = [rx EXCEPT ![d] = Len(bus) - KillCap]
            /\ killOn' = [killOn EXCEPT ![d] = FALSE]
            /\ UNCHANGED <<pc, aborted, turns>>
       ELSE /\ rx' = [rx EXCEPT ![d] = @ + 1]
            /\ IF KillMatches(bus[rx[d] + 1].id, d)
               THEN /\ aborted' = [aborted EXCEPT ![d] = TRUE]
                    /\ pc' = [pc EXCEPT ![d] = "aborting"]
                    /\ killOn' = [killOn EXCEPT ![d] = FALSE]
                    /\ UNCHANGED turns
               ELSE /\ turns' = [turns EXCEPT ![d] = @ + 1]
                    /\ UNCHANGED <<pc, aborted, killOn>>
    /\ UNCHANGED <<runQueue, built, artifact, rpc, bus, svc, lib, snap, active,
                   result, handleRet, cleanups, cbArgs, adminKills, procUp,
                   seen, nonDepVars>>

\* The handle branch of select!: the service task is over.
RunHandleResolved(d) ==
    /\ procUp
    /\ pc[d] = "run"
    /\ Resolved(d)
    /\ result' = [result EXCEPT ![d] = JoinResult(d)]
    /\ pc' = [pc EXCEPT ![d] = "closing"]
    /\ killOn' = [killOn EXCEPT ![d] = FALSE]
    /\ UNCHANGED <<runQueue, built, artifact, rpc, bus, rx, svc, aborted, lib, snap,
                   active, handleRet, cleanups, cbArgs, adminKills, procUp, turns,
                   seen, nonDepVars>>

\* `result = handle.await` after handle.abort().
RunJoinAborted(d) ==
    /\ procUp
    /\ pc[d] = "aborting"
    /\ Resolved(d)
    /\ result' = [result EXCEPT ![d] = JoinResult(d)]
    /\ pc' = [pc EXCEPT ![d] = "closing"]
    /\ UNCHANGED <<runQueue, built, artifact, rpc, bus, rx, killOn, svc, aborted, lib,
                   snap, active, handleRet, cleanups, cbArgs, adminKills, procUp, turns,
                   seen, nonDepVars>>

\* A faulty variant: the `else` is missing, the callback runs after
\* crashed_cleanup too.
RunCallbackArgsNoElse(closeOk, r) == <<r>>

\* The end of run: the results the cleanup callback is invoked with,
\* `if let Err(err) = library.close() { crashed_cleanup } else { cleanup(result) }`.
RunCallbackArgs(closeOk, r) == IF closeOk THEN <<r>> ELSE <<>>

\* A faulty variant: the error of library.close() is dropped.
RunCleanupsNoCloseErr(closeOk, r) ==
    [i \in 1..Len(RunCallbackArgs(closeOk, r)) |->
        cleanup(RunCallbackArgs(closeOk, r)[i])]

\* The cleanups the end of run invokes, itself or through the callback.
RunCleanups(closeOk, r) ==
    (IF closeOk THEN <<>> ELSE <<crashed_cleanup("run", "Close")>>)
        \o [i \in 1..Len(RunCallbackArgs(closeOk, r)) |->
                cleanup(RunCallbackArgs(closeOk, r)[i])]

\* library.close(), then crashed_cleanup or the cleanup callback.
RunClose(d) ==
    /\ procUp
    /\ pc[d] = "closing"
    /\ \E closeOk \in BOOLEAN :
        /\ lib' = [lib EXCEPT ![d] = IF closeOk THEN "closed" ELSE "close-failed"]
        /\ cbArgs' = [cbArgs EXCEPT ![d] = @ \o RunCallbackArgs(closeOk, result[d])]
        /\ Finish(d, RunCleanups(closeOk, result[d]))
    /\ UNCHANGED <<runQueue, built, artifact, rpc, bus, svc, aborted, snap, result,
                   handleRet, adminKills, procUp,
                   seen, nonDepVars>>

\* ------------------------------------------------- deployer: environment

\* The service task returns (or panics) on its own.
SvcFinish(d) ==
    /\ procUp
    /\ svc[d] = "running"
    /\ \E e \in Endings : svc' = [svc EXCEPT ![d] = e]
    /\ UNCHANGED <<runQueue, built, artifact, pc, rpc, bus, rx, killOn, aborted, lib,
                   snap, active, result, handleRet, cleanups, cbArgs, adminKills,
                   procUp, turns,
                   seen, nonDepVars>>

\* An aborted service task is cancelled at its next yield.
SvcCancel(d) ==
    /\ procUp
    /\ svc[d] = "running"
    /\ aborted[d]
    /\ svc' = [svc EXCEPT ![d] = "cancelled"]
    /\ UNCHANGED <<runQueue, built, artifact, pc, rpc, bus, rx, killOn, aborted, lib,
                   snap, active, result, handleRet, cleanups, cbArgs, adminKills,
                   procUp, turns,
                   seen, nonDepVars>>

\* An administrative stop request publishes an id on the kill bus.
AdminKill(id) ==
    /\ procUp
    /\ adminKills < MaxAdminKills
    /\ adminKills' = adminKills + 1
    /\ bus' = Append(bus, Msg(id, GhostId))
    /\ UNCHANGED <<runQueue, built, artifact, pc, rpc, rx, killOn, svc, aborted, lib,
                   snap, active, result, handleRet, cleanups, cbArgs, procUp, turns,
                   seen, nonDepVars>>

\* A service task whose library was released while it still runs.
Released(d) == lib[d] \in {"closed", "close-failed", "dropped"}
Orphan(d) == svc[d] = "running" /\ Released(d)

\* Executing code of a released library is undefined behaviour: the task may
\* go on as if nothing happened (SvcFinish), or fault and take the process
\* down.
UBFault ==
    /\ procUp
    /\ \E d \in Dep : Orphan(d)
    /\ procUp' = FALSE
    /\ UNCHANGED <<runQueue, built, artifact, pc, rpc, bus, rx, killOn, svc, aborted,
                   lib, snap, active, result, handleRet, cleanups, cbArgs,
                   adminKills, turns,
                   seen, nonDepVars>>

\* ------------------------------------------------- gateway: worker queue

Project == 1..NumProjects

\* gateway.iter_projects(): the projects, in a fixed order.
ProjectList == [i \in 1..NumProjects |-> i]

Task(kind, project) == [kind |-> kind, project |-> project]

\* Sender::capacity(): the free slots of the bounded channel.
Capacity == WORKER_QUEUE_SIZE - Len(wq)

GwInit ==
    /\ wq = <<>>
    /\ ambPc = "tick"
    /\ ambTodo = <<>>
    /\ ambFree = WORKER_QUEUE_SIZE

\* The ambulance skips the tick when the queue is degraded.
Degraded == Capacity < WORKER_QUEUE_SIZE - SVC_DEGRADED_THRESHOLD

\* interval.tick() fires and the capacity is checked.
AmbTick ==
    /\ ambPc = "tick"
    /\ ambPc' = IF Degraded THEN "tick" ELSE "list"
    /\ UNCHANGED <<wq, ambTodo, ambFree, nonGwVars>>

\* A faulty variant: the for loop ends after its first project.
AmbLoopFirstOnly(todo) == IF Len(todo) = NumProjects THEN "send" ELSE "tick"

\* Where the for loop over the projects goes with `todo` left.
AmbLoop(todo) == IF todo = <<>> THEN "tick" ELSE "send"

\* gateway.iter_projects() returns; on Err the tick is over.
AmbList ==
    /\ ambPc = "list"
    /\ \E ok \in BOOLEAN :
        IF ok
        THEN /\ ambTodo' = ProjectList
             /\ ambPc' = AmbLoop(ProjectList)
        ELSE /\ ambPc' = "tick"
             /\ UNCHANGED ambTodo
    /\ UNCHANGED <<wq, ambFree, nonGwVars>>

\* The health-check task of the current project is sent: it enters the
\* queue as soon as the queue has room, and the ambulance awaits its handle.
AmbSend ==
    /\ ambPc = "send"
    /\ Capacity > 0
    /\ ambFree' = Capacity
    /\ wq' = Append(wq, Task("check_health", Head(ambTodo)))
    /\ ambPc' = "await"
    /\ UNCHANGED <<ambTodo, nonGwVars>>

\* The send fails: the project is skipped.
AmbSendFails ==
    /\ ambPc = "send"
    /\ ambTodo' = Tail(ambTodo)
    /\ ambPc' = AmbLoop(Tail(ambTodo))
    /\ UNCHANGED <<wq, ambFree, nonGwVars>>

\* A faulty variant: the handle is not awaited.
HandleResolvedAtOnce(t) == TRUE

\* The handle of a task resolves when the worker has run the task.
HandleResolved(t) == \A i \in 1..Len(wq) : wq[i] # t

\* `handle.await` returns: on to the next project.
AmbAwait ==
    /\ ambPc = "await"
    /\ HandleResolved(Task("check_health", Head(ambTodo)))
    /\ ambTodo' = Tail(ambTodo)
    /\ ambPc' = AmbLoop(Tail(ambTodo))
    /\ UNCHANGED <<wq, ambFree, nonGwVars>>

\* The API or the proxy sends a task for a project.
OtherSend(p) ==
    /\ Capacity > 0
    /\ wq' = Append(wq, Task("other", p))
    /\ UNCHANGED <<ambPc, ambTodo, ambFree, nonGwVars>>

\* The worker takes the task at the front of the queue and runs it.
WorkerRun ==
    /\ wq # <<>>
    /\ wq' = Tail(wq)
    /\ UNCHANGED <<ambPc, ambTodo, ambFree, nonGwVars>>

GwNext ==
    \/ AmbTick
    \/ AmbList
    \/ AmbSend
    \/ AmbSendFails
    \/ AmbAwait
    \/ \E p \in Project : OtherSend(p)
    \/ WorkerRun

\* ------------------------------------------------- gateway: start

CustomDomain == 1..NumDomains

\* gateway.iter_custom_domains(): the rows, in a fixed order.
CustomDomainList == [i \in 1..NumDomains |-> i]

\* The four tasks start selects over.
TopTasks == {"worker", "api", "user", "ambulance"}

\* args.context.proxy_fqdn, as its labels.
ProxyFqdn == <<"shuttleapp", "rs">>

\* format!("*.{public}")
Identifier(public) == <<"*">> \o public

TlsInit ==
    /\ useTls = "unset"
    /\ sslPem = "absent"
    /\ acmeJson = "absent"
    /\ domains = <<>>
    /\ mainPc = "idle"
    /\ certPc = "none"
    /\ certs = "none"
    /\ served = "none"
    /\ installed = {}
    /\ exit = "none"
    /\ handles = [t \in TopTasks |-> "none"]
    /\ nProj = 0
    /\ bootTodo = <<>>
    /\ bootQ = <<>>
    /\ starts = 0
    /\ ops = <<>>
    /\ acmeLog = <<>>

\* The gateway process runs: neither has start returned nor has the main
\* task panicked.
GatewayUp == exit = "none"

\* A panic on the main task unwinds out of main: the process ends with a
\* nonzero exit code.
MainPanics ==
    /\ exit' = "panic"
    /\ mainPc' = "dead"

\* start is called, with args.use_tls, the files under `fs` and the
\* persisted projects as they are.
TlsStart ==
    /\ mainPc = "idle"
    /\ \E tls \in {"Enable", "Disable"},
          pem \in {"absent", "invalid", "valid"},
          creds \in {"absent", "invalid", "valid"},
          n \in 0..MaxBootProjects :
        /\ useTls' = tls
        /\ sslPem' = pem
        /\ acmeJson' = creds
        /\ nProj' = n
    /\ mainPc' = "projects"
    /\ starts' = 1
    /\ UNCHANGED <<domains, certPc, certs, served, installed, exit, handles,
                   bootTodo, bootQ, ops, acmeLog, nonTlsVars>>

\* The gateway process is started again on the same state directory.
TlsRestart ==
    /\ ~GatewayUp
    /\ starts < MaxStarts
    /\ starts' = starts + 1
    /\ mainPc' = "projects"
    /\ exit' = "none"
    /\ certPc' = "none"
    /\ certs' = "none"
    /\ served' = "none"
    /\ installed' = {}
    /\ domains' = <<>>
    /\ handles' = [t \in TopTasks |-> "none"]
    /\ bootTodo' = <<>>
    /\ bootQ' = <<>>
    /\ ops' = <<>>
    /\ UNCHANGED <<useTls, sslPem, acmeJson, nProj, acmeLog, nonTlsVars>>

\* `gateway.iter_projects().await.expect("could not list projects")`.
BootListProjects ==
    /\ GatewayUp
    /\ mainPc = "projects"
    /\ \E ok \in BOOLEAN :
        IF ok
        THEN /\ bootTodo' = [i \in 1..nProj |-> i]
             /\ mainPc' = "refresh"
             /\ UNCHANGED exit
        ELSE /\ MainPanics
             /\ UNCHANGED bootTodo
    /\ UNCHANGED <<useTls, sslPem, acmeJson, domains, certPc, certs, served,
                   installed, handles, nProj, bootQ, starts, ops, acmeLog,
                   nonTlsVars>>

\* sender.capacity() during start-up.
BootCapacity == WORKER_QUEUE_SIZE - Len(bootQ)

\* One turn of the start-up loop: the refresh task of the next project is
\* sent, which waits for room in the queue.
BootSend ==
    /\ GatewayUp
    /\ mainPc = "refresh"
    /\ bootTodo # <<>>
    /\ BootCapacity > 0
    /\ bootQ' = Append(bootQ, Task("refresh", Head(bootTodo)))
    /\ bootTodo' = Tail(bootTodo)
    /\ UNCHANGED <<useTls, sslPem, acmeJson, domains, mainPc, certPc, certs,
                   served, installed, exit, handles, nProj, starts, ops,
                   acmeLog, nonTlsVars>>

\* The loop is through: tokio::spawn of worker.start() and of the
\* ambulance, then the builders, up to the test of args.use_tls.
BootSpawn ==
    /\ GatewayUp
    /\ mainPc = "refresh"
    /\ bootTodo = <<>>
    /\ handles' = [handles EXCEPT !["worker"] = "running", !["ambulance"] = "running"]
    /\ mainPc' = IF useTls = "Enable" THEN "list" ELSE "serve"
    /\ UNCHANGED <<useTls, sslPem, acmeJson, domains, certPc, certs, served,
                   installed, exit, nProj, bootTodo, bootQ, starts, ops,
                   acmeLog, nonTlsVars>>

\* The worker takes the task at the front of the queue.
BootWorkerRun ==
    /\ GatewayUp
    /\ handles["worker"] = "running"
    /\ bootQ # <<>>
    /\ bootQ' = Tail(bootQ)
    /\ UNCHANGED <<useTls, sslPem, acmeJson, domains, mainPc, certPc, certs,
                   served, installed, exit, handles, nProj, bootTodo, starts,
                   ops, acmeLog, nonTlsVars>>

\* One of the top-level tasks ends, by returning or by a panic.
TaskEnds(t) ==
    /\ GatewayUp
    /\ handles[t] = "running"
    /\ \E how \in {"finished", "panicked"} :
        handles' = [handles EXCEPT ![t] = how]
    /\ UNCHANGED <<useTls, sslPem, acmeJson, domains, mainPc, certPc, certs,
                   served, installed, exit, nProj, bootTodo, bootQ, starts,
                   ops, acmeLog, nonTlsVars>>

\* `gateway.iter_custom_domains().await.unwrap()`.
TlsListDomains ==
    /\ GatewayUp
    /\ mainPc = "list"
    /\ \E ok \in BOOLEAN :
        IF ok
        THEN /\ domains' = CustomDomainList
             /\ mainPc' = "domains"
             /\ UNCHANGED exit
        ELSE /\ MainPanics
             /\ UNCHANGED domains
    /\ UNCHANGED <<useTls, sslPem, acmeJson, certPc, certs, served, installed,
                   handles, nProj, bootTodo, bootQ, starts, ops, acmeLog,
                   nonTlsVars>>

\* One turn of the loop over the custom domains:
\* `resolver.serve_pem(..).await.unwrap()`.
TlsServePem ==
    /\ GatewayUp
    /\ mainPc = "domains"
    /\ domains # <<>>
    /\ \E ok \in BOOLEAN :
        IF ok
        THEN /\ installed' = installed \cup {Head(domains)}
             /\ domains' = Tail(domains)
             /\ UNCHANGED <<mainPc, exit>>
        ELSE /\ MainPanics
             /\ UNCHANGED <<installed, domains>>
    /\ UNCHANGED <<useTls, sslPem, acmeJson, certPc, certs, served,
                   handles, nProj, bootTodo, bootQ, starts, ops, acmeLog,
                   nonTlsVars>>

\* tokio::spawn of the task that calls init_certs; its JoinHandle is dropped.
TlsSpawnCerts ==
    /\ GatewayUp
    /\ mainPc = "domains"
    /\ domains = <<>>
    /\ certPc' = "load"
    /\ mainPc' = "serve"
    /\ UNCHANGED <<useTls, sslPem, acmeJson, domains, certs, served, installed,
                   exit, handles, nProj, bootTodo, bootQ, starts, ops, acmeLog,
                   nonTlsVars>>

\* api_builder..serve() and user_builder.serve(): the control API and the
\* user proxy are up, and start waits in its select!.
MainServe ==
    /\ GatewayUp
    /\ mainPc = "serve"
    /\ mainPc' = "select"
    /\ handles' = [handles EXCEPT !["api"] = "running", !["user"] = "running"]
    /\ UNCHANGED <<useTls, sslPem, acmeJson, domains, certPc, certs, served,
                   installed, exit, nProj, bootTodo, bootQ, starts, ops,
                   acmeLog, nonTlsVars>>

\* A faulty variant: start waits for all four tasks.
SelectReadyAll == \A t \in TopTasks : handles[t] \in {"finished", "panicked"}

\* A branch of the select! is ready: the pattern `_` takes whatever the
\* handle resolved to, a join error included.
SelectReady == \E t \in TopTasks : handles[t] \in {"finished", "panicked"}

\* One of the four handles of the select! finishes: start returns Ok(()),
\* the runtime shuts down and drops the tasks still running.
MainSelect ==
    /\ GatewayUp
    /\ mainPc = "select"
    /\ SelectReady
    /\ mainPc' = "returned"
    /\ exit' = "Ok"
    /\ UNCHANGED <<useTls, sslPem, acmeJson, domains, certPc, certs, served,
                   installed, handles, nProj, bootTodo, bootQ, starts, ops,
                   acmeLog, nonTlsVars>>

\* A faulty variant: the file on disk is never used.
load_pem_never(file) == FALSE

\* ChainAndPrivateKey::load_pem(&tls_path): Ok(valid) for a file that parses.
load_pem(file) == file \in {"valid", "issued"}

\* init_certs: `match ChainAndPrivateKey::load_pem(&tls_path)`.
CertLoad ==
    /\ GatewayUp
    /\ certPc = "load"
    /\ IF load_pem(sslPem)
       THEN /\ certs' = sslPem
            /\ certPc' = "serve"
            /\ ops' = Append(ops, "load_ok")
       ELSE /\ certPc' = "creds"
            /\ ops' = Append(ops, "load_err")
            /\ UNCHANGED certs
    /\ UNCHANGED <<useTls, sslPem, acmeJson, domains, mainPc, served, installed,
                   exit, handles, nProj, bootTodo, bootQ, starts, acmeLog,
                   nonTlsVars>>

\* What a panic does to the spawned task: the runtime catches it, the task
\* is over and nobody awaits its JoinHandle.
TaskPanics == "panicked"

\* init_certs: `if !creds_path.exists() { panic!(..) }`, File::open and
\* serde_json::from_reader, each unwrapped.
CertCreds ==
    /\ GatewayUp
    /\ certPc = "creds"
    /\ certPc' = IF acmeJson = "valid" THEN "issue" ELSE TaskPanics
    /\ UNCHANGED <<useTls, sslPem, acmeJson, domains, mainPc, certs, served,
                   installed, exit, handles, nProj, bootTodo, bootQ, starts,
                   ops, acmeLog, nonTlsVars>>

\* init_certs: `acme.create_certificate(&identifier, ChallengeType::Dns01,
\* creds).await.unwrap()` and `ChainAndPrivateKey::parse_pem(..).unwrap()`.
CertIssue ==
    /\ GatewayUp
    /\ certPc = "issue"
    /\ ops' = Append(ops, "acme")
    /\ acmeLog' = Append(acmeLog, [identifier |-> Identifier(ProxyFqdn),
                                   challenge |-> "Dns01"])
    /\ \E ok \in BOOLEAN :
        IF ok
        THEN /\ certs' = "issued"
             /\ certPc' = "save"
        ELSE /\ certPc' = TaskPanics
             /\ UNCHANGED certs
    /\ UNCHANGED <<useTls, sslPem, acmeJson, domains, mainPc, served, installed,
                   exit, handles, nProj, bootTodo, bootQ, starts, nonTlsVars>>

\* A faulty variant: the result of save_pem is ignored.
SaveThenIgnored(ok) == "serve"

\* init_certs: `certs.clone().save_pem(&tls_path).unwrap(); certs`.
SaveThen(ok) == IF ok THEN "serve" ELSE TaskPanics

\* init_certs: save_pem.  A failed save leaves the file as it was or broken.
CertSave ==
    /\ GatewayUp
    /\ certPc = "save"
    /\ \E ok \in BOOLEAN :
        /\ certPc' = SaveThen(ok)
        /\ ops' = Append(ops, IF ok THEN "save_ok" ELSE "save_err")
        /\ IF ok
           THEN sslPem' = certs
           ELSE \E left \in {sslPem, "invalid"} : sslPem' = left
    /\ UNCHANGED <<useTls, acmeJson, domains, mainPc, certs, served, installed,
                   exit, handles, nProj, bootTodo, bootQ, starts, acmeLog,
                   nonTlsVars>>

\* `resolver.serve_default_der(certs).await.unwrap()`.
CertServe ==
    /\ GatewayUp
    /\ certPc = "serve"
    /\ \E ok \in BOOLEAN :
        IF ok
        THEN /\ served' = certs
             /\ certPc' = "done"
        ELSE /\ certPc' = TaskPanics
             /\ UNCHANGED served
    /\ UNCHANGED <<useTls, sslPem, acmeJson, domains, mainPc, certs, installed,
                   exit, handles, nProj, bootTodo, bootQ, starts, ops, acmeLog,
                   nonTlsVars>>

TlsNext ==
    \/ TlsStart
    \/ TlsRestart
    \/ BootListProjects
    \/ BootSend
    \/ BootSpawn
    \/ BootWorkerRun
    \/ \E t \in TopTasks : TaskEnds(t)
    \/ TlsListDomains
    \/ TlsServePem
    \/ TlsSpawnCerts
    \/ MainServe
    \/ MainSelect
    \/ CertLoad
    \/ CertCreds
    \/ CertIssue
    \/ CertSave
    \/ CertServe

\* ------------------------------------------------- kill_old_deployments alone

KodId == 1..NumKodIds

\* The return values of get_active_deployments: the ordered sets over KodId.
KodSnapshots ==
    {q \in UNION {[1..n -> KodId] : n \in 0..NumKodIds} :
        \A i, j \in 1..Len(q) : i # j => q[i] # q[j]}

KodInit ==
    /\ kodId = 0
    /\ kodSnap = <<>>
    /\ kodLeft = <<>>
    /\ kodSent = <<>>
    /\ kodRet = "idle"

\* kill_old_deployments(service_id, deployment_id, ..) is called and
\* get_active_deployments returns: Err maps to OldCleanup through `?`.
KodCall ==
    /\ kodRet = "idle"
    /\ \E deployment_id \in KodId, snapshot \in KodSnapshots, ok \in BOOLEAN :
        /\ kodId' = deployment_id
        /\ IF ok
           THEN /\ kodSnap' = snapshot
                /\ kodLeft' = ReapTargets(snapshot, deployment_id)
                /\ kodRet' = "running"
           ELSE /\ kodRet' = "OldCleanup"
                /\ UNCHANGED <<kodSnap, kodLeft>>
    /\ UNCHANGED <<kodSent, nonKodVars>>

\* One turn of the for loop: `kill_send.send(old_id).map_err(..)?`.
KodSend ==
    /\ kodRet = "running"
    /\ kodLeft # <<>>
    /\ \E ok \in BOOLEAN :
        IF ok
        THEN /\ kodSent' = Append(kodSent, Head(kodLeft))
             /\ kodLeft' = Tail(kodLeft)
             /\ UNCHANGED kodRet
        ELSE /\ kodRet' = "OldCleanup"
             /\ UNCHANGED <<kodSent, kodLeft>>
    /\ UNCHANGED <<kodId, kodSnap, nonKodVars>>

\* The for loop is through: Ok(()).
KodReturn ==
    /\ kodRet = "running"
    /\ kodLeft = <<>>
    /\ kodRet' = "Ok"
    /\ UNCHANGED <<kodId, kodSnap, kodLeft, kodSent, nonKodVars>>

KodNext ==
    \/ KodCall
    \/ KodSend
    \/ KodReturn

\* ------------------------------------------------- specifications

Init == DepInit /\ GwInit /\ TlsInit /\ KodInit

\* The gateway on its own.
GwSpec == Init /\ [][GwNext]_vars

\* The gateway's start on its own.
TlsSpec == Init /\ [][TlsNext]_vars

\* As TlsSpec, and the main task runs whenever it can.
TlsFairSpec ==
    TlsSpec /\ WF_vars(BootListProjects) /\ WF_vars(BootSend) /\ WF_vars(BootSpawn)

\* The reaper on its own.
KodSpec == Init /\ [][KodNext]_vars

DepNext ==
    \/ \E d \in Dep : Submit(d)
    \/ RunnerRecv
    \/ \E d \in Dep : RunnerFactory(d)
    \/ \E d \in Dep : HandleLoad(d)
    \/ \E d \in Dep : ReapSnapshot(d)
    \/ \E d \in Dep : ReapSend(d)
    \/ \E d \in Dep : HandleSpawnRun(d)
    \/ \E d \in Dep : RunRecv(d)
    \/ \E d \in Dep : RunHandleResolved(d)
    \/ \E d \in Dep : RunJoinAborted(d)
    \/ \E d \in Dep : RunClose(d)
    \/ \E d \in Dep : SvcFinish(d)
    \/ \E d \in Dep : SvcCancel(d)
    \/ \E id \in Dep : AdminKill(id)
    \/ UBFault

Next == DepNext

Spec == Init /\ [][Next]_vars

\* Every spawned task and the runner loop are scheduled again and again; an
\* aborted task is cancelled.  A service task need not ever end on its own.
DepFair ==
    /\ WF_vars(RunnerRecv)
    /\ \A d \in Dep :
        /\ WF_vars(RunnerFactory(d))
        /\ WF_vars(HandleLoad(d))
        /\ WF_vars(ReapSnapshot(d))
        /\ WF_vars(ReapSend(d))
        /\ WF_vars(HandleSpawnRun(d))
        /\ WF_vars(RunRecv(d))
        /\ WF_vars(RunHandleResolved(d))
        /\ WF_vars(RunJoinAborted(d))
        /\ WF_vars(RunClose(d))
        /\ WF_vars(SvcCancel(d))

FairSpec == Spec /\ DepFair

\* As FairSpec, and every service task ends on its own sooner or later.
FairTermSpec == FairSpec /\ \A d \in Dep : WF_vars(SvcFinish(d))

\* ------------------------------------------------- properties

\* C1: every deployment has at most one cleanup invoked for it (and its
\* callback invoked at most once) at all times, none before the runner
\* received it, and exactly one once its pipeline has finished.
C1_ExactlyOneCleanup ==
    \A d \in Dep :
        /\ Len(cleanups[d]) <= 1
        /\ Len(cbArgs[d]) <= 1
        /\ pc[d] \in {"new", "queued"} => cleanups[d] = <<>>
        /\ pc[d] = "done" => Len(cleanups[d]) = 1

\* C1 witness: one deployment ended in a cleanup through the callback of its
\* run task after a kill, another in the handler's start-crashed cleanup.
C1_Witness ==
    \E d, e \in Dep :
        /\ pc[d] = "done" /\ handleRet[d] = "Ok" /\ aborted[d]
        /\ cleanups[d] = <<stopped_cleanup("callback")>>
        /\ pc[e] = "done" /\ handleRet[e] = "OldCleanup"
        /\ cleanups[e] = <<start_crashed_cleanup("handler", "OldCleanup")>>

\* C2 (as claimed): two deployments of one service are never in the running
\* state at the same time.
C2_AtMostOneRunning ==
    \A d, e \in Dep :
        (d # e /\ built[d].service_id = built[e].service_id /\ Running(d))
            => ~Running(e)

\* A kill for d sent while d was in the running state waits unread in front
\* of d's run task, whose service task is still not over.
KillPending(d) ==
    /\ procUp
    /\ pc[d] = "run"
    /\ svc[d] = "running"
    /\ \E i \in (rx[d] + 1)..Len(bus) : bus[i].id = d /\ bus[i].live

\* C3 (as claimed): a kill published for a running deployment leads to the
\* run task aborting the handle (or the handle resolving first), as long as
\* the process lives.
C3_KillLeadsToAbort ==
    \A d \in Dep : KillPending(d) ~> (aborted[d] \/ Resolved(d) \/ ~procUp)

\* C4: when the service task ended on its own, no kill aborted it and the
\* library closed without error, the callback was invoked exactly once, with
\* the result the service ended with, and that alone decided the cleanup.
C4_NaturalResultPassedOn ==
    \A d \in Dep :
        (pc[d] = "done" /\ handleRet[d] = "Ok" /\ ~aborted[d] /\ lib[d] = "closed")
            => /\ svc[d] = "ok" =>
                    /\ cbArgs[d] = <<OkOk>>
                    /\ cleanups[d] = <<completed_cleanup("callback")>>
               /\ svc[d] = "bind-panic" =>
                    /\ cbArgs[d] = <<[join |-> "ok", inner |-> "BindPanic",
                                      msg |-> "panic in bind"]>>
                    /\ cleanups[d] = <<crashed_cleanup("callback", "BindPanic")>>
               /\ svc[d] = "panic" =>
                    /\ cbArgs[d] = <<ErrPanic>>
                    /\ cleanups[d] = <<start_crashed_cleanup("callback", "JoinError")>>
               /\ svc[d] \in Endings

\* C4 witness: a service whose bind step panicked was reported as such.
C4_Witness ==
    \E d \in Dep :
        /\ pc[d] = "done" /\ handleRet[d] = "Ok" /\ ~aborted[d] /\ lib[d] = "closed"
        /\ svc[d] = "bind-panic"
        /\ cbArgs[d] = <<OkErrBindPanic>>

\* C5: a failed path resolution or load ends the pipeline at once with that
\* error as handle's return value: no service task, no library, no run task,
\* no callback, only the handler's start-crashed cleanup.
C5_LoadFailureShortCircuits ==
    \A d \in Dep :
        /\ artifact[d] = "missing" => handleRet[d] = "Load"
        /\ artifact[d] = "main-panic" => handleRet[d] = "Run(BuildPanic(main panic))"
        /\ handleRet[d] \in {"Path", "Load", "Run(BuildPanic(main panic))"} =>
                /\ pc[d] = "done"
                /\ svc[d] = "none" /\ lib[d] = "none"
                /\ result[d] = NoResult /\ ~aborted[d]
                /\ cbArgs[d] = <<>>
                /\ cleanups[d] = <<start_crashed_cleanup("handler", handleRet[d])>>

\* C5 witness: both failing loads have happened.
C5_Witness ==
    \E d, e \in Dep :
        /\ artifact[d] = "main-panic" /\ pc[d] = "done"
        /\ artifact[e] = "missing" /\ pc[e] = "done"

\* d's run task receives a kill id that is not its own.
ForeignRecv(d) ==
    /\ pc[d] = "run" /\ killOn[d] /\ RecvReady(d) /\ ~Lagged(d)
    /\ bus[rx[d] + 1].id # d
    /\ rx'[d] = rx[d] + 1

\* C6: a run task that receives a kill id other than its own stays in its
\* select! with the kill branch armed and the handle not aborted; the step
\* invokes no cleanup for any deployment, touches no service task or library
\* and sends nothing on the bus.
C6_ForeignKillIgnored ==
    [][\A d \in Dep :
        ForeignRecv(d) =>
            /\ pc'[d] = "run" /\ killOn'[d] /\ ~aborted'[d]
            /\ pc' = pc /\ svc' = svc /\ lib' = lib /\ aborted' = aborted
            /\ cleanups' = cleanups /\ cbArgs' = cbArgs
            /\ bus' = bus]_vars

\* C6 witness: a run task has received a foreign kill id (of a deployment
\* that is not live) and goes on waiting for a service still running.
C6_Witness ==
    \E d \in Dep :
        /\ pc[d] = "run" /\ turns[d] >= 1 /\ killOn[d]
        /\ svc[d] = "running" /\ ~aborted[d] /\ cleanups[d] = <<>>
        /\ \E e \in Dep : bus[rx[d]].id = e /\ pc[e] \in {"new", "done"}

\* C7 (as claimed): with d's id published n >= 1 times and nothing else, d's
\* run task reacts as to one publication: until it has aborted the handle
\* its kill branch stays armed.
C7_RepeatedKillAsOne ==
    \A d \in Dep :
        (pc[d] = "run" /\ bus # <<>> /\ \A i \in 1..Len(bus) : bus[i].id = d)
            => killOn[d]

\* C8 (as claimed): whenever the ambulance put a health check in the queue,
\* the queue's free capacity at that moment was at least
\* WORKER_QUEUE_SIZE - SVC_DEGRADED_THRESHOLD.
C8_NoEnqueueWhenDegraded ==
    ambFree >= WORKER_QUEUE_SIZE - SVC_DEGRADED_THRESHOLD

\* C9 (as claimed): a finished pipeline either spawned the run task or
\* emitted a start-crashed cleanup, and every Built the runner received
\* gets a cleanup in the end.
C9_NoBuiltDropped ==
    /\ [](\A d \in Dep :
            pc[d] = "done" =>
                \/ handleRet[d] = "Ok"
                \/ \E i \in 1..Len(cleanups[d]) : cleanups[d][i].kind = "start_crashed")
    /\ \A d \in Dep : (pc[d] \notin {"new", "queued"}) ~> (cleanups[d] # <<>>)

\* C10 (as claimed): a released library's service task is over.
C10_LibraryOutlivesHandle ==
    \A d \in Dep : Released(d) => svc[d] # "running"

\* The deployments of d's service other than d that are not yet terminated.
OthersAlive(d) ==
    {e \in Dep \ {d} :
        /\ built[e].service_id = built[d].service_id
        /\ pc[e] \in {"run", "aborting", "closing"}}

\* C11 (as claimed): once d has loaded, reaped and started its run task, the
\* non-terminated deployments of d's service shrink to d alone (unless d
\* itself terminates or the process dies first).
C11_ConvergesToNewest ==
    \A d \in Dep :
        (pc[d] = "run" /\ handleRet[d] = "Ok")
            ~> (OthersAlive(d) = {} \/ pc[d] = "done" \/ ~procUp)

\* d's reaper has sent e's id on the kill bus.
PublishedBy(d, e) == \E i \in 1..Len(bus) : bus[i].id = e /\ bus[i].by = d

\* C12 (as claimed): two deployments of one service never both reach the
\* running state with neither reaper having published a kill for the other.
C12_LaterSnapshotKills ==
    \A d, e \in Dep :
        (/\ d # e
         /\ built[d].service_id = built[e].service_id
         /\ Running(d) /\ Running(e))
            => (PublishedBy(d, e) \/ PublishedBy(e, d))

\* d is past the spawn of its run task.
RunSpawned(d) == handleRet[d] = "Ok"

\* C13: load, then reap, then run.  The reaper works with the library
\* loaded and the service task started; once the run task is spawned the
\* reaper has nothing left to publish, and every other deployment its
\* snapshot held has been published on the kill bus by it.
C13_ReapBeforeRun ==
    \A d \in Dep :
        /\ pc[d] \in {"loaded", "reaping"} => (lib[d] = "open" /\ svc[d] # "none")
        /\ pc[d] \in {"run", "aborting", "closing"} => RunSpawned(d)
        /\ RunSpawned(d) =>
                /\ snap[d] = <<>>
                /\ artifact[d] = "loadable"
                /\ \A i \in 1..Len(seen[d]) :
                        seen[d][i] # d => PublishedBy(d, seen[d][i])

\* C13 witness: with d1 active, d2 of the same service has started its run
\* task after publishing d1, and d1 still runs.
C13_Witness ==
    \E d1, d2 \in Dep :
        /\ d1 # d2
        /\ seen[d2] = <<d1>>
        /\ pc[d2] = "run" /\ RunSpawned(d2)
        /\ PublishedBy(d2, d1)
        /\ Running(d1)

\* init_certs gave up for want of ACME credentials: TLS is on, ssl.pem did
\* not load and acme.json does not exist.
MissingCredsPanic ==
    /\ useTls = "Enable"
    /\ ~load_pem(sslPem)
    /\ acmeJson = "absent"
    /\ certPc = "panicked"

\* C14 (as claimed): when init_certs finds no valid ssl.pem and no acme.json,
\* the gateway does not go on serving the control API and the user proxy,
\* and start does not return Ok.
C14_MissingCredsFatal ==
    MissingCredsPanic => (mainPc # "select" /\ exit # "Ok")

\* C15: the resolver serves a certificate issued through ACME only after it
\* was written to ssl.pem, and never after a failed save.
C15_SavedBeforeServed ==
    /\ served = "issued" => sslPem = "issued"
    /\ certPc \in {"serve", "done"} /\ certs = "issued" => sslPem = "issued"
    /\ served # "none" => (served = certs /\ served = sslPem)

\* C15 witness: a certificate was issued, saved and is served.
C15_Witness ==
    /\ served = "issued"
    /\ sslPem = "issued"
    /\ certPc = "done"

\* The cleanup kind the two-level outcome r stands for.
KindOf(r) ==
    CASE r.join = "ok" /\ r.inner = "ok" -> "completed"
      [] r.join = "ok" /\ r.inner # "ok" -> "crashed"
      [] r.join = "cancelled" -> "stopped"
      [] OTHER -> "start_crashed"

\* C16: the callback maps each two-level outcome to one cleanup kind:
\* Ok(Ok(())) to completed, Ok(Err(e)) to crashed, Err(cancelled) to stopped
\* and any other Err to start-crashed; a deployment whose callback was
\* invoked has exactly that one cleanup.
C16_CallbackMapping ==
    /\ cleanup(OkOk).kind = "completed"
    /\ cleanup(OkErrBindPanic).kind = "crashed"
    /\ cleanup(ErrCancelled).kind = "stopped"
    /\ cleanup(ErrPanic).kind = "start_crashed"
    /\ \A d \in Dep :
        cbArgs[d] # <<>> =>
            /\ cbArgs[d][1] \in {OkOk, OkErrBindPanic, ErrCancelled, ErrPanic}
            /\ Len(cleanups[d]) = 1
            /\ cleanups[d][1].by = "callback"
            /\ cleanups[d][1].kind = KindOf(cbArgs[d][1])

\* C16 witness: one callback was invoked with a cancelled join error and
\* gave stopped, another with a panicked join error and gave start-crashed.
C16_Witness ==
    \E d, e \in Dep :
        /\ cbArgs[d] = <<ErrCancelled>> /\ cleanups[d][1].kind = "stopped"
        /\ cbArgs[e] = <<ErrPanic>> /\ cleanups[e][1].kind = "start_crashed"

\* C17: a failed library.close() gives a crashed cleanup with the close
\* error and no callback, whatever the handle resolved to; a successful one
\* gives the callback with the handle's outcome and no cleanup by run.
C17_CloseErrorReplacesOutcome ==
    \A d \in Dep :
        /\ lib[d] = "close-failed" =>
                /\ cleanups[d] = <<[kind |-> "crashed", by |-> "run", err |-> "Close"]>>
                /\ cbArgs[d] = <<>>
                /\ result[d] # NoResult
        /\ lib[d] = "closed" =>
                /\ cbArgs[d] = <<result[d]>>
                /\ result[d] # NoResult
                /\ Len(cleanups[d]) = 1
                /\ cleanups[d][1].by = "callback"

\* C17 witness: the close failed after a cancelled handle and after a
\* service error.
C17_Witness ==
    \E d, e \in Dep :
        /\ lib[d] = "close-failed" /\ result[d] = ErrCancelled /\ pc[d] = "done"
        /\ lib[e] = "close-failed" /\ result[e] = OkErrBindPanic /\ pc[e] = "done"

\* The runner loop itself emitted d's cleanup.
FailedInLoop(d) == \E i \in 1..Len(cleanups[d]) : cleanups[d][i].by = "loop"

\* C18: a Built that fails in the loop (port, name, factory) gets one
\* start-crashed cleanup from the loop; no handler ran for it, nothing was
\* loaded, nothing published; a Built with a name that does not parse never
\* gets past the loop; and the step that fails an item leaves the loop at
\* its recv, ready for the next Built.
C18_LoopErrorsContinue ==
    /\ [](\A d \in Dep :
            /\ FailedInLoop(d) =>
                    /\ pc[d] = "done"
                    /\ Len(cleanups[d]) = 1
                    /\ cleanups[d][1].kind = "start_crashed"
                    /\ cleanups[d][1].err \in {"PrepareLoad", "ServiceName", "Factory"}
                    /\ handleRet[d] = "pending" /\ artifact[d] = "unread"
                    /\ svc[d] = "none" /\ lib[d] = "none"
                    /\ \A i \in 1..Len(bus) : bus[i].by # d
            /\ (pc[d] \notin {"new", "queued"} /\ built[d].service_name = <<"-", "a", "1">>)
                    => FailedInLoop(d)
            /\ rpc \in {"recv", "factory"})
    /\ [][\A d \in Dep :
            (~FailedInLoop(d) /\ FailedInLoop(d)') => rpc' = "recv"]_vars

\* C18 witness: one Built failed in the loop at get_factory, and the loop
\* went on to receive the next one, which runs.
C18_Witness ==
    \E d, e \in Dep :
        /\ d < e
        /\ cleanups[d] = <<[kind |-> "start_crashed", by |-> "loop", err |-> "Factory"]>>
        /\ pc[e] = "run"

\* kodSnap without deployment_id, in order.
KodOthers == SelectSeq(kodSnap, LAMBDA x : x # kodId)

\* C19: the reaper sends the ids of its snapshot other than deployment_id,
\* each once and in snapshot order, and never deployment_id; when it returns
\* Ok it has sent them all.
C19_PublishesOthersInOrder ==
    /\ \A i \in 1..Len(kodSent) : kodSent[i] # kodId
    /\ \A i, j \in 1..Len(kodSent) : i # j => kodSent[i] # kodSent[j]
    /\ Len(kodSent) <= Len(KodOthers)
    /\ \A i \in 1..Len(kodSent) : kodSent[i] = KodOthers[i]
    /\ kodRet = "Ok" => kodSent = KodOthers

\* C19 witness: a snapshot of three ids with deployment_id in the middle
\* was gone through, and the two others were sent.
C19_Witness ==
    /\ kodRet = "Ok"
    /\ Len(kodSnap) = 3
    /\ kodSnap[2] = kodId
    /\ kodSent = <<kodSnap[1], kodSnap[3]>>

\* C20: when the reaper fails, Built::handle returns OldCleanup, no run task
\* was spawned (no result, no callback, never active), the reaper published
\* nothing after the failure, and the handler emitted a start-crashed
\* cleanup; a loaded deployment fails in handle in no other way.
C20_ReaperFailureStartCrashed ==
    \A d \in Dep :
        /\ handleRet[d] = "OldCleanup" =>
                /\ pc[d] = "done"
                /\ artifact[d] = "loadable"
                /\ cleanups[d] = <<[kind |-> "start_crashed", by |-> "handler",
                                    err |-> "OldCleanup"]>>
                /\ result[d] = NoResult /\ cbArgs[d] = <<>> /\ ~aborted[d]
                /\ \A i \in 1..Len(active) : active[i] # d
                /\ snap[d] = <<>>
                /\ seen[d] = <<>> => \A i \in 1..Len(bus) : bus[i].by # d
        /\ (artifact[d] = "loadable" /\ pc[d] = "done" /\ handleRet[d] # "Ok")
                => handleRet[d] = "OldCleanup"

\* C20 witness: the reaper of a deployment failed while another deployment
\* of the same service was running.
C20_Witness ==
    \E d, e \in Dep :
        /\ handleRet[d] = "OldCleanup" /\ pc[d] = "done"
        /\ built[e].service_id = built[d].service_id
        /\ e # d /\ Running(e)

\* C21: a kill received when the service task had already ended on its own
\* does not change the outcome: `result` is the task's own result, the one
\* cleanup is the one that result stands for, never stopped.
C21_KillAfterResolvedDiscarded ==
    \A d \in Dep :
        (aborted[d] /\ svc[d] \in Endings) =>
            /\ pc[d] \in {"closing", "done"} =>
                    /\ result[d].join # "cancelled"
                    /\ svc[d] = "ok" => result[d] = OkOk
                    /\ svc[d] = "bind-panic" => result[d] = OkErrBindPanic
                    /\ svc[d] = "panic" => result[d] = ErrPanic
            /\ pc[d] = "done" =>
                    /\ Len(cleanups[d]) = 1
                    /\ cleanups[d][1].kind # "stopped"
                    /\ lib[d] = "closed" => cleanups[d][1].kind = KindOf(result[d])

\* C21 witness: d's service had returned Ok before the only kill for d was
\* even sent (by the reaper of a later deployment that saw d active); d's
\* run task took the kill branch, and the cleanup is completed.
C21_Witness ==
    \E d \in Dep :
        /\ pc[d] = "done" /\ aborted[d] /\ svc[d] = "ok"
        /\ cleanups[d] = <<[kind |-> "completed", by |-> "callback", err |-> ""]>>
        /\ \A i \in 1..Len(bus) :
                bus[i].id = d => (~bus[i].live /\ bus[i].by # GhostId)

\* C26 (as claimed): a deployment with a cleanup recorded has no service
\* task still running.
C26_NoOrphanAfterCleanup ==
    \A d \in Dep : cleanups[d] # <<>> => svc[d] # "running"

\* handle returned one of the errors of path resolution and load.
LoadFailed(d) == handleRet[d] \in {"Path", "Load", "Run(BuildPanic(main panic))"}

\* C27: a deployment whose path resolution or load failed never polled its
\* reaper (no snapshot, nothing published by it), and the step in which it
\* failed sent nothing on the bus, touched no service task and no other
\* pipeline, and left the active set as it was.
C27_FailedLoadLeavesOthers ==
    /\ [](\A d \in Dep :
            LoadFailed(d) =>
                /\ seen[d] = <<>> /\ snap[d] = <<>>
                /\ \A i \in 1..Len(bus) : bus[i].by # d)
    /\ [][\A d \in Dep :
            (~LoadFailed(d) /\ LoadFailed(d)') =>
                /\ bus' = bus /\ svc' = svc /\ aborted' = aborted
                /\ lib' = lib /\ active' = active
                /\ \A e \in Dep \ {d} : pc'[e] = pc[e] /\ cleanups'[e] = cleanups[e]]_vars

\* C27 witness: d's load failed while e of the same service was running and
\* active; e still is, and the bus is empty.
C27_Witness ==
    \E d, e \in Dep :
        /\ d # e /\ built[d].service_id = built[e].service_id
        /\ LoadFailed(d)
        /\ Running(e) /\ pc[e] = "run" /\ active = <<e>>
        /\ e < d
        /\ bus = <<>>

\* A kill for d sent after the runner subscribed d's receiver waits unread
\* while d's run task has not started.
EarlyKill(d) ==
    /\ pc[d] \in {"factory", "handle", "loaded", "reaping"}
    /\ \E i \in (rx[d] + 1)..Len(bus) : bus[i].id = d

\* C28 (as claimed): a kill published between d's dequeue and the start of
\* d's run task is not lost: d gets aborted (unless its pipeline or service
\* ends before, or the process dies).
C28_EarlyKillNotLost ==
    \A d \in Dep :
        EarlyKill(d) ~> (aborted[d] \/ pc[d] = "done" \/ Resolved(d) \/ ~procUp)

\* C29 (as claimed): of two deployments of one service, the one dequeued
\* first is never the one left running after its reaper killed the later.
C29_LatestWins ==
    \A d1, d2 \in Dep :
        (d1 < d2 /\ built[d1].service_id = built[d2].service_id)
            => ~(PublishedBy(d1, d2) /\ aborted[d2] /\ pc[d2] = "done"
                    /\ pc[d1] = "run" /\ Running(d1))

\* The places of the worker queue that hold a health check.
Checks == {i \in 1..Len(wq) : wq[i].kind = "check_health"}

\* C22: at most one health check of the ambulance is outstanding, it is the
\* one of the project the ambulance is waiting for, and the ambulance is
\* about to enqueue only when none is outstanding.
C22_ChecksSequential ==
    /\ Cardinality(Checks) <= 1
    /\ Checks # {} =>
            /\ ambPc = "await"
            /\ \A i \in Checks : wq[i].project = Head(ambTodo)
    /\ ambPc = "await" => ambTodo # <<>>

\* C22 witness: the check of the second project waits in the queue behind
\* other tasks, the first project's check being over.
C22_Witness ==
    /\ ambPc = "await"
    /\ Len(ambTodo) = NumProjects - 1
    /\ Len(wq) >= 2
    /\ wq[Len(wq)] = [kind |-> "check_health", project |-> ProjectList[2]]

\* C23: while the health check the ambulance waits for is in the queue, no
\* step moves the ambulance or enqueues another health check; and a send
\* that fails only drops that project: the ambulance goes on with the next
\* project, or to the next tick after the last.
C23_StallsOnHandleSkipsOnError ==
    [][/\ (ambPc = "await" /\ Checks # {}) =>
            /\ ambPc' = "await" /\ ambTodo' = ambTodo
            /\ Cardinality(Checks') <= 1
       /\ (ambPc = "send" /\ wq' = wq /\ ambTodo' # ambTodo) =>
            /\ ambTodo' = Tail(ambTodo)
            /\ ambTodo' # <<>> => ambPc' = "send"
            /\ ambTodo' = <<>> => ambPc' = "tick"]_vars

\* C23 witness: the ambulance waits for the first project's check, which
\* sits at the end of a full queue.
C23_Witness ==
    /\ ambPc = "await"
    /\ ambTodo = ProjectList
    /\ Len(wq) = WORKER_QUEUE_SIZE
    /\ wq[Len(wq)].kind = "check_health"

\* C24: start returns only with one of the four top-level tasks over, it
\* needs no more than one, it can return whenever it is in its select! with
\* one of them over, however that task ended, and it returns Ok.
C24_SelectReturnsOnFirst ==
    /\ exit = "Ok" =>
            /\ mainPc = "returned"
            /\ \E t \in TopTasks : handles[t] \in {"finished", "panicked"}
    /\ mainPc = "returned" => exit = "Ok"
    /\ (GatewayUp /\ mainPc = "select"
            /\ \E t \in TopTasks : handles[t] \in {"finished", "panicked"})
        => ENABLED MainSelect

\* C24 witness: start returned Ok with the ambulance panicked and the three
\* other tasks still running.
C24_Witness ==
    /\ exit = "Ok"
    /\ handles["ambulance"] = "panicked"
    /\ \A t \in TopTasks \ {"ambulance"} : handles[t] = "running"

\* C25: init_certs starts with load_pem; when that succeeds it does nothing
\* else (no ACME call, no write); every ACME request is for *.<proxy_fqdn>
\* with DNS-01 and follows a failed load in the same run; and a run that
\* finds the certificate a previous run issued and saved makes no request.
C25_DiskFirstIssueOnce ==
    /\ ops # <<>> => ops[1] \in {"load_ok", "load_err"}
    /\ (ops # <<>> /\ ops[1] = "load_ok") => (ops = <<"load_ok">> /\ certs = sslPem)
    /\ \A i \in 1..Len(ops) :
            ops[i] \in {"acme", "save_ok", "save_err"} => (i > 1 /\ ops[1] = "load_err")
    /\ \A i \in 1..Len(acmeLog) :
            acmeLog[i] = [identifier |-> <<"*", "shuttleapp", "rs">>,
                          challenge |-> "Dns01"]
    /\ (starts = 2 /\ sslPem = "issued" /\ \A i \in 1..Len(ops) : ops[i] # "acme")
            => (Len(acmeLog) = 1 /\ ops \in {<<>>, <<"load_ok">>})

\* C25 witness: the second run serves the certificate the first run issued
\* and saved, after one ACME request in all.
C25_Witness ==
    /\ starts = 2
    /\ ops = <<"load_ok">>
    /\ served = "issued"
    /\ Len(acmeLog) = 1

\* C30 (as claimed): once the start-up loop over the persisted projects has
\* begun, start gets to the spawn of the worker.
C30_StartupReachesWorker ==
    (mainPc = "refresh") ~> (handles["worker"] # "none")
====
